---------------------------- MODULE Spec2Model ----------------------------
(*
  A model of the movie database application (src/movies.py) and its SQLite
  store (src/movie_storage_sql.py).

  Representation
    - A Python str is a sequence of code points (ASCII).
    - A rating (a float with one decimal) is an integer number of tenths:
      7.0 is 70, the range [0,10] is 0..100.
    - The movies table is a sequence of rows in rowid order, which is the
      order SELECT returns them in and the iteration order of the dict that
      list_movies builds.
*)
EXTENDS Integers, Sequences, FiniteSets, TLC

(***************************************************************************)
(* Titles and queries the model draws its inputs from.                     *)
(***************************************************************************)
StarWars == <<83, 116, 97, 114, 32, 87, 97, 114, 115>>                       \* "Star Wars"
StarTrek == <<83, 116, 97, 114, 32, 84, 114, 101, 107>>                      \* "Star Trek"
Stars == <<83, 116, 97, 114, 115>>                                           \* "Stars"
Cars2 == <<67, 97, 114, 115, 32, 50>>                                        \* "Cars 2"
Jaws2 == <<74, 97, 119, 115, 32, 50>>                                        \* "Jaws 2"
Stardust == <<83, 116, 97, 114, 100, 117, 115, 116>>                         \* "Stardust"
MarsAttacks == <<77, 97, 114, 115, 32, 65, 116, 116, 97, 99, 107, 115, 33>>  \* "Mars Attacks!"
QStarWars2 == <<115, 116, 97, 114, 32, 119, 97, 114, 115, 32, 50>>           \* "star wars 2"
QStar == <<83, 84, 65, 82>>                                                  \* "STAR"
QCars == <<67, 97, 114, 115>>                                                \* "Cars"
EmptyStr == <<>>                                                             \* ""

\* The titles a catalogue snapshot is drawn from when search alone is explored.
SearchTitles == {StarWars, StarTrek, Stars, Cars2, Jaws2, Stardust, MarsAttacks}
\* What the user types at "Enter part of movie name".
Queries == {QStarWars2, QStar, QCars}

(***************************************************************************)
(* Python str operations used by the handlers and by thefuzz.              *)
(***************************************************************************)
Max(a, b) == IF a >= b THEN a ELSE b

\* str.lower() on one character.
LowerChar(c) == IF c >= 65 /\ c <= 90 THEN c + 32 ELSE c

\* str.lower()
lower(s) == [i \in 1..Len(s) |-> LowerChar(s[i])]

\* needle in hay (Python substring test)
Contains(needle, hay) ==
    \E k \in 0..(Len(hay) - Len(needle)) : SubSeq(hay, k + 1, k + Len(needle)) = needle

\* str.isalnum() on one ASCII character.
IsAlnum(c) == (c >= 48 /\ c <= 57) \/ (c >= 65 /\ c <= 90) \/ (c >= 97 /\ c <= 122)

RECURSIVE LStrip(_)
LStrip(s) == IF s /= <<>> /\ Head(s) = 32 THEN LStrip(Tail(s)) ELSE s

RECURSIVE RStrip(_)
RStrip(s) == IF s /= <<>> /\ s[Len(s)] = 32 THEN RStrip(SubSeq(s, 1, Len(s) - 1)) ELSE s

\* str.strip()
strip(s) == RStrip(LStrip(s))

\* thefuzz.utils.full_process: lower-case, every non-alphanumeric character
\* becomes a blank, leading and trailing blanks are removed.
full_process(s) ==
    strip([i \in 1..Len(s) |-> IF IsAlnum(s[i]) THEN LowerChar(s[i]) ELSE 32])

\* str.split(): the set of the blank-separated words of s (the scorer only
\* uses set(s.split())).
RECURSIVE SplitFrom(_, _, _)
SplitFrom(s, i, word) ==
    IF i > Len(s)
    THEN (IF word = <<>> THEN {} ELSE {word})
    ELSE IF s[i] = 32
         THEN (IF word = <<>> THEN {} ELSE {word}) \cup SplitFrom(s, i + 1, <<>>)
         ELSE SplitFrom(s, i + 1, Append(word, s[i]))

tokens(s) == SplitFrom(s, 1, <<>>)

\* a < b for Python strings (lexicographic on code points)
RECURSIVE StrLess(_, _)
StrLess(a, b) ==
    IF b = <<>> THEN FALSE
    ELSE IF a = <<>> THEN TRUE
    ELSE IF Head(a) /= Head(b) THEN Head(a) < Head(b)
    ELSE StrLess(Tail(a), Tail(b))

\* " ".join(sorted(words))
RECURSIVE JoinSorted(_)
JoinSorted(words) ==
    IF words = {} THEN <<>>
    ELSE LET w == CHOOSE x \in words : \A y \in words \ {x} : StrLess(x, y)
             rest == JoinSorted(words \ {w})
         IN IF rest = <<>> THEN w ELSE w \o <<32>> \o rest

(***************************************************************************)
(* fuzz.token_set_ratio                                                    *)
(***************************************************************************)
\* One row of the longest-common-subsequence table for the character ai of a:
\* prev is the row before it, cur the columns 0..Len(cur)-1 filled so far
\* (column j is held at position j + 1).
RECURSIVE LcsRow(_, _, _, _)
LcsRow(ai, b, prev, cur) ==
    LET j == Len(cur)
    IN IF j > Len(b) THEN cur
       ELSE LcsRow(ai, b, prev,
                   Append(cur, IF ai = b[j] THEN prev[j] + 1 ELSE Max(prev[j + 1], cur[j])))

\* rows holds the rows 0..Len(rows)-1 of the table.
RECURSIVE LcsTable(_, _, _)
LcsTable(a, b, rows) ==
    LET i == Len(rows)
    IN IF i > Len(a) THEN rows[i][Len(b) + 1]
       ELSE LcsTable(a, b, Append(rows, LcsRow(a[i], b, rows[i], <<0>>)))

\* Length of the longest common subsequence of a and b.
Lcs(a, b) == LcsTable(a, b, <<[j \in 1..(Len(b) + 1) |-> 0]>>)

\* Insertions plus deletions needed to turn a into b.
IndelDistance(a, b) == Len(a) + Len(b) - 2 * Lcs(a, b)

\* A similarity 100 - 100 * dist / lensum, kept exact as the fraction
\* <<lensum - dist, lensum>> of 100.
NormDistance(dist, lensum) == IF lensum > 0 THEN <<lensum - dist, lensum>> ELSE <<1, 1>>

FracLess(p, q) == p[1] * q[2] < q[1] * p[2]

FracMax(p, q) == IF FracLess(p, q) THEN q ELSE p

\* The best of the three ratios of the scorer, for the length of the joined
\* common words and the joined words that only one side has.
BestRatio(sectLen, ab, ba) ==
    LET sep == IF sectLen > 0 THEN 1 ELSE 0
        sectAbLen == sectLen + sep + Len(ab)
        sectBaLen == sectLen + sep + Len(ba)
        result == NormDistance(IndelDistance(ab, ba), sectAbLen + sectBaLen)
        sectAb == NormDistance(sep + Len(ab), sectLen + sectAbLen)
        sectBa == NormDistance(sep + Len(ba), sectLen + sectBaLen)
    IN IF sectLen = 0 THEN result ELSE FracMax(result, FracMax(sectAb, sectBa))

\* The scorer on the word sets of the two strings: 0 if a side has no word,
\* 100 if the sides share a word and one side has no word of its own.
WordSetSimilarity(ta, tb) ==
    IF ta = {} \/ tb = {} THEN <<0, 1>>
    ELSE IF ta \cap tb /= {} /\ (ta \ tb = {} \/ tb \ ta = {}) THEN <<1, 1>>
    ELSE BestRatio(Len(JoinSorted(ta \cap tb)), JoinSorted(ta \ tb), JoinSorted(tb \ ta))

\* The unrounded token-set similarity of two processed strings, as a
\* fraction of 100.
TokenSetSimilarity(s1, s2) == WordSetSimilarity(tokens(s1), tokens(s2))

\* int(round(100 * p[1] / p[2])) with Python's round-half-to-even.
RoundPercent(p) ==
    LET n == 100 * p[1]
        q == n \div p[2]
        r == n % p[2]
    IN IF 2 * r > p[2] \/ (2 * r = p[2] /\ q % 2 = 1) THEN q + 1 ELSE q


(***************************************************************************)
(* Bounds of the model.                                                    *)
(***************************************************************************)
\* Most rows the movies table holds in the application runs explored.
MaxMovies == 3
\* Most rows of a snapshot when search alone is explored.
MaxSnapshot == 6

(***************************************************************************)
(* Inputs.                                                                 *)
(***************************************************************************)
\* The title a prompt loop "while True: title = input(...)" leaves with: the
\* first entry that is not empty (an empty entry is answered with "Please
\* enter a movie name" and asked again).  TypedTitles are those of the add,
\* delete and update prompts, ProviderTitles the titles the metadata provider
\* answers with.
TypedTitles == {Stars, Cars2, Jaws2}
ProviderTitles == {Stars, Cars2, Jaws2, EmptyStr}

\* Text that float() or int() is applied to: a number, or not a number.
Num(v) == [isNumber |-> TRUE, value |-> v]
NotANumber == [isNumber |-> FALSE, value |-> 0]

\* imdbRating as the provider sends it ("5.0", "7.0", "11.0", "N/A"); Year is
\* "1999" or, once, not a number ("1999-").
ProviderRatings == {Num(50), Num(70), Num(110), NotANumber}
\* What the user enters at "Enter new movie rating (0-10)".
EnteredRatings == {Num(-10), Num(70), Num(100), Num(110), NotANumber}

\* The answers of the metadata provider to one request.
ProviderResponses ==
    {[kind |-> k, Title |-> EmptyStr, Year |-> NotANumber, imdbRating |-> NotANumber] :
        k \in {"no_title", "connection_error", "timeout"}}
    \cup
    {[kind |-> "ok", Title |-> t, Year |-> Num(1999), imdbRating |-> r] :
        t \in ProviderTitles, r \in ProviderRatings}
    \cup
    {[kind |-> "ok", Title |-> Stars, Year |-> NotANumber, imdbRating |-> Num(70)]}

Poster == "poster"

(***************************************************************************)
(* State.                                                                  *)
(***************************************************************************)
VARIABLES
    store,   \* the rows of the movies table, in rowid order
    movies,  \* the dict the running handler got from storage.list_movies()
    calls,   \* the storage functions the last handler called, in order
    out,     \* what the last handler printed, and the exception it raised
    pc       \* "menu": in main's loop; "crashed": ended by an uncaught
             \* exception; "exited": ended by sys.exit(0)

vars == <<store, movies, calls, out, pc>>

\* One printed line.
Line(tag, title, year, value) == [tag |-> tag, title |-> title, year |-> year, value |-> value]

Msg(tag) == Line(tag, EmptyStr, 0, 0)

\* "{movie} ({year}): {rating}" and its variants.
MovieLine(tag, m) == Line(tag, m.title, m.year, m.rating)

Titles(rows) == {rows[i].title : i \in 1..Len(rows)}

\* movies[title]
Lookup(rows, title) == rows[CHOOSE i \in 1..Len(rows) : rows[i].title = title]

Result(op, input, error, fuzzy, lines) ==
    [op |-> op, input |-> input, error |-> error, fuzzy |-> fuzzy, lines |-> lines]

(***************************************************************************)
(* movie_storage_sql                                                       *)
(***************************************************************************)
\* list_movies(): SELECT ... FROM movies, as a dict in row order.
storage_list_movies(table) == table

\* add_movie(): INSERT; the UNIQUE constraint on title makes the INSERT of a
\* title that is present fail, and the exception is caught and printed.
storage_add_movie(table, title, year, rating, image) ==
    IF title \in Titles(table)
    THEN table
    ELSE Append(table, [title |-> title, year |-> year, rating |-> rating, image |-> image])

\* delete_movie(): DELETE FROM movies WHERE title = :title
storage_delete_movie(table, title) == SelectSeq(table, LAMBDA row : row.title /= title)

\* update_movie(): UPDATE movies SET rating = :rating WHERE title = :title
storage_update_movie(table, title, rating) ==
    [i \in 1..Len(table) |->
        IF table[i].title = title THEN [table[i] EXCEPT !.rating = rating] ELSE table[i]]

(***************************************************************************)
(* Python built-ins.                                                       *)
(***************************************************************************)
\* Where x goes in the sorted sequence acc: after every element that does
\* not sort after it, so that equal keys keep the order they came in.
InsertPosition(acc, x, reverse) ==
    Cardinality({k \in 1..Len(acc) :
        IF reverse THEN acc[k].key >= x.key ELSE acc[k].key <= x.key})

RECURSIVE SortInto(_, _, _)
SortInto(items, acc, reverse) ==
    LET n == Len(acc)
    IN IF n = Len(items) THEN acc
       ELSE LET x == items[n + 1]
                at == InsertPosition(acc, x, reverse)
            IN SortInto(items,
                        SubSeq(acc, 1, at) \o <<x>> \o SubSeq(acc, at + 1, n),
                        reverse)

\* sorted(items, key=..., reverse=...): a stable sort of the items
\* [key |-> k, item |-> x].
sorted(items, reverse) == SortInto(items, <<>>, reverse)

Undecorate(items) == [i \in 1..Len(items) |-> items[i].item]

RECURSIVE sum(_)
sum(xs) == IF xs = <<>> THEN 0 ELSE Head(xs) + sum(Tail(xs))

max(xs) == CHOOSE x \in {xs[i] : i \in 1..Len(xs)} : \A i \in 1..Len(xs) : x >= xs[i]

min(xs) == CHOOSE x \in {xs[i] : i \in 1..Len(xs)} : \A i \in 1..Len(xs) : x <= xs[i]

\* round(total / n, 1) in tenths, for a total in tenths: the nearest tenth,
\* a half going to the even one.
RoundedMean(total, n) ==
    LET q == total \div n
        r == total % n
    IN IF 2 * r > n \/ (2 * r = n /\ q % 2 = 1) THEN q + 1 ELSE q

(***************************************************************************)
(* thefuzz.process.extract                                                 *)
(***************************************************************************)
\* process.extract(query, choices, scorer=...) is called without limit=, so
\* the library's default of 5 results applies.
ExtractLimit == 5

\* The scorer on raw strings: both are processed, then compared.  The
\* similarities of the inputs the model draws from are computed once.
SimilarityTable ==
    [q \in Queries |-> [t \in SearchTitles \cup ProviderTitles |->
        TokenSetSimilarity(full_process(q), full_process(t))]]

Similarity(query, choice) ==
    IF query \in DOMAIN SimilarityTable /\ choice \in DOMAIN SimilarityTable[query]
    THEN SimilarityTable[query][choice]
    ELSE TokenSetSimilarity(full_process(query), full_process(choice))

\* The similarity as the float the scorer computes, to four decimals.
SimilarityFloat(p) == (p[1] * 1000000) \div p[2]

\* process.extract(query, choices, scorer=fuzz.token_set_ratio): the
\* (choice, score) pairs of the ExtractLimit best choices, best first, equal
\* ranks in the order of choices.  Every pair carries the integer score.  The
\* releases of thefuzz built on rapidfuzz rank by the similarity before it is
\* rounded and round afterwards (byUnrounded); the earlier ones rank by the
\* rounded score.
Scored(choice, p, byUnrounded) ==
    [key |-> IF byUnrounded THEN SimilarityFloat(p) ELSE RoundPercent(p),
     item |-> [title |-> choice, score |-> RoundPercent(p)]]

Best(ranked, limit) == SubSeq(ranked, 1, IF Len(ranked) < limit THEN Len(ranked) ELSE limit)

\* process.extractWithoutOrder: every (choice, score) pair, in the order of
\* choices.
extractWithoutOrder(query, choices, byUnrounded) ==
    [i \in 1..Len(choices) |->
        Scored(choices[i], Similarity(query, choices[i]), byUnrounded).item]

extract(query, choices, byUnrounded) ==
    Best(Undecorate(sorted([i \in 1..Len(choices) |->
                               Scored(choices[i], Similarity(query, choices[i]), byUnrounded)],
                           TRUE)),
         ExtractLimit)

(***************************************************************************)
(* The handlers of movies.py, as functions of the snapshot and the input.  *)
(***************************************************************************)
\* The score below which search_movie reports "not found".
Threshold == 53

\* list_movies
ListOutput(snapshot) ==
    <<Line("total", EmptyStr, 0, Len(snapshot))>>
    \o [i \in 1..Len(snapshot) |-> MovieLine("movie", snapshot[i])]

\* A scan that reports only the first movie with the maximum and the first
\* with the minimum.
BestWorstFirstOnly(snapshot, maximum, minimum) ==
    LET first(r) == {i \in 1..Len(snapshot) :
                        /\ snapshot[i].rating = r
                        /\ \A j \in 1..(i - 1) : snapshot[j].rating /= r}
    IN [i \in 1..Cardinality(first(maximum)) |->
            MovieLine("best", snapshot[CHOOSE k \in first(maximum) : TRUE])]
       \o [i \in 1..Cardinality(first(minimum)) |->
            MovieLine("worst", snapshot[CHOOSE k \in first(minimum) : TRUE])]

\* The best/worst loop of stats: for each movie in snapshot order, a "best"
\* line if its rating is the maximum, then a "worst" line if it is the minimum.
RECURSIVE BestWorstLines(_, _, _)
BestWorstLines(snapshot, maximum, minimum) ==
    IF snapshot = <<>> THEN <<>>
    ELSE LET m == Head(snapshot)
         IN (IF m.rating = maximum THEN <<MovieLine("best", m)>> ELSE <<>>)
            \o (IF m.rating = minimum THEN <<MovieLine("worst", m)>> ELSE <<>>)
            \o BestWorstLines(Tail(snapshot), maximum, minimum)

\* The ratings as they come, the sort left out.
UnsortedRatings(ratings) == ratings

\* sorted(ratings)
SortedRatings(ratings) ==
    Undecorate(sorted([i \in 1..Len(ratings) |-> [key |-> ratings[i], item |-> ratings[i]]], FALSE))

\* The median of stats, doubled so that the mean of two tenths stays an
\* integer: 2 * sorted_ratings[mid] for an odd count,
\* sorted_ratings[mid - 1] + sorted_ratings[mid] for an even one (Python
\* indexes from 0, the sequence from 1).
MedianOfSorted(sorted_ratings) ==
    LET mid == Len(sorted_ratings) \div 2
    IN IF Len(sorted_ratings) % 2 /= 0
       THEN 2 * sorted_ratings[mid + 1]
       ELSE sorted_ratings[mid] + sorted_ratings[mid + 1]

Median2(ratings) == MedianOfSorted(SortedRatings(ratings))

\* stats with a guard that reports zeros for no movie.
StatsOutputZero(snapshot, ratings) ==
    IF Len(ratings) = 0
    THEN Result("stats", EmptyStr, "none", FALSE,
                <<Line("average", EmptyStr, 0, 0), Line("median2", EmptyStr, 0, 0)>>)
    ELSE Result("stats", EmptyStr, "none", FALSE,
                <<Line("average", EmptyStr, 0, RoundedMean(sum(ratings), Len(ratings))),
                  Line("median2", EmptyStr, 0, Median2(ratings))>>
                \o BestWorstLines(snapshot, max(ratings), min(ratings)))

\* stats: sum(ratings) / len(ratings) raises ZeroDivisionError for no movie,
\* before anything is printed.
StatsOutput(snapshot, ratings) ==
    IF Len(ratings) = 0
    THEN Result("stats", EmptyStr, "ZeroDivisionError", FALSE, <<>>)
    ELSE Result("stats", EmptyStr, "none", FALSE,
                <<Line("average", EmptyStr, 0, RoundedMean(sum(ratings), Len(ratings))),
                  Line("median2", EmptyStr, 0, Median2(ratings))>>
                \o BestWorstLines(snapshot, max(ratings), min(ratings)))

StatsResult(snapshot) == StatsOutput(snapshot, [i \in 1..Len(snapshot) |-> snapshot[i].rating])

\* random_movie: random.choice(list(movies.items())) raises IndexError for an
\* empty list; pick is the index it draws otherwise.
RandomResult(snapshot, pick) ==
    IF snapshot = <<>>
    THEN Result("random_movie", EmptyStr, "IndexError", FALSE, <<>>)
    ELSE Result("random_movie", EmptyStr, "none", FALSE, <<MovieLine("pick", snapshot[pick])>>)

\* A keyword phase that compares without lower().
KeywordMatchesCaseSensitive(snapshot, title) ==
    SelectSeq(snapshot, LAMBDA m : Contains(title, m.title))

\* The keyword phase of search_movie: the movies whose lower-cased title
\* contains the lower-cased entry, in snapshot order.
KeywordMatches(snapshot, title) ==
    SelectSeq(snapshot, LAMBDA m : Contains(lower(title), lower(m.title)))

\* The suggestions printed from the extract() result: title, year and rating
\* of every result whose score reaches the threshold.
GoodLines(snapshot, good) ==
    [i \in 1..Len(good) |-> MovieLine("suggestion", Lookup(snapshot, good[i].title))]

SuggestionLines(snapshot, fuzzy_search) ==
    GoodLines(snapshot, SelectSeq(fuzzy_search, LAMBDA r : r.score >= Threshold))

\* search_movie after its first loop: found are the movies that loop
\* printed, fuzzy_search is what process.extract returns if it is called.
SearchOutput(snapshot, title, found, fuzzy_search) ==
    IF found /= <<>>
    THEN Result("search_movie", title, "none", FALSE,
                [i \in 1..Len(found) |-> MovieLine("match", found[i])])
    ELSE IF fuzzy_search = <<>>
    THEN \* fuzzy_search[0] on an empty list
         Result("search_movie", title, "IndexError", TRUE, <<>>)
    ELSE IF fuzzy_search[1].score < Threshold
    THEN Result("search_movie", title, "none", TRUE, <<Msg("not_found")>>)
    ELSE Result("search_movie", title, "none", TRUE,
                <<Msg("did_you_mean")>> \o SuggestionLines(snapshot, fuzzy_search))

\* search_movie after the prompt loop.
SearchResult(snapshot, title, byUnrounded) ==
    SearchOutput(snapshot, title, KeywordMatches(snapshot, title),
                 extract(title, [i \in 1..Len(snapshot) |-> snapshot[i].title], byUnrounded))

\* Ascending sort, then reversed: descending, but equal ratings in reverse
\* snapshot order.
RankedMoviesReversed(snapshot) ==
    LET ascending == Undecorate(sorted([i \in 1..Len(snapshot) |->
                                  [key |-> snapshot[i].rating, item |-> snapshot[i]]], FALSE))
    IN [i \in 1..Len(ascending) |-> ascending[Len(ascending) + 1 - i]]

\* movies_sorted_by_rating
RankedMovies(snapshot) ==
    Undecorate(sorted([i \in 1..Len(snapshot) |->
                          [key |-> snapshot[i].rating, item |-> snapshot[i]]], TRUE))

MovieLines(tag, rows) == [i \in 1..Len(rows) |-> MovieLine(tag, rows[i])]

SortedResult(snapshot) ==
    Result("movies_sorted_by_rating", EmptyStr, "none", FALSE,
           MovieLines("movie", RankedMovies(snapshot)))

(***************************************************************************)
(* The program: main's menu loop and one action per menu entry.            *)
(***************************************************************************)
Init ==
    /\ store = <<>>
    /\ movies = <<>>
    /\ calls = <<>>
    /\ out = Result("main", EmptyStr, "none", FALSE, <<>>)
    /\ pc = "menu"

\* A handler that writes its snapshot back with every rating reset.
ReadOnlySaving(result) ==
    /\ movies' = storage_list_movies(store)
    /\ calls' = <<"list_movies", "update_movie">>
    /\ out' = result
    /\ pc' = IF result.error = "none" THEN "menu" ELSE "crashed"
    /\ store' = [i \in 1..Len(store) |-> [store[i] EXCEPT !.rating = 0]]

\* A handler that only reads: it takes its snapshot and prints.
ReadOnly(result) ==
    /\ movies' = storage_list_movies(store)
    /\ calls' = <<"list_movies">>
    /\ out' = result
    /\ pc' = IF result.error = "none" THEN "menu" ELSE "crashed"
    /\ UNCHANGED store

\* "1": list_movies
ListMovies ==
    /\ pc = "menu"
    /\ ReadOnly(Result("list_movies", EmptyStr, "none", FALSE,
                       ListOutput(storage_list_movies(store))))

\* "2": add_movie.  title is what the prompt loop leaves with, data what the
\* provider answers.
AddMovie ==
    /\ pc = "menu"
    /\ \E title \in TypedTitles, data \in ProviderResponses :
        LET snapshot == storage_list_movies(store)
            done(error, lines, table, called) ==
                /\ movies' = snapshot
                /\ out' = Result("add_movie", title, error, FALSE, lines)
                /\ store' = table
                /\ calls' = called
                /\ pc' = IF error = "none" THEN "menu" ELSE "crashed"
        IN IF title \in Titles(snapshot)
           THEN done("none", <<Msg("already_exist")>>, store, <<"list_movies">>)
           ELSE IF data.kind = "connection_error"
           THEN done("none", <<Msg("could_not_connect")>>, store, <<"list_movies">>)
           ELSE IF data.kind = "timeout"
           THEN done("none", <<Msg("timed_out")>>, store, <<"list_movies">>)
           ELSE IF data.kind = "no_title"
           THEN \* data['Title'] raises KeyError
                done("none", <<Msg("not_found")>>, store, <<"list_movies">>)
           ELSE IF data.Title \in Titles(snapshot)
           THEN done("none", <<Msg("already_exist")>>, store, <<"list_movies">>)
           ELSE IF ~data.Year.isNumber \/ ~data.imdbRating.isNumber
           THEN \* int(data['Year']) or float(data['imdbRating']) raises
                \* ValueError, which add_movie does not catch
                done("ValueError", <<>>, store, <<"list_movies">>)
           ELSE /\ Len(store) < MaxMovies
                /\ done("none", <<Msg("added")>>,
                        storage_add_movie(store, data.Title, data.Year.value,
                                          data.imdbRating.value, Poster),
                        <<"list_movies", "add_movie">>)

\* "3": delete_movie
DeleteMovie ==
    /\ pc = "menu"
    /\ \E title \in TypedTitles :
        LET snapshot == storage_list_movies(store)
        IN /\ movies' = snapshot
           /\ pc' = "menu"
           /\ IF title \in Titles(snapshot)
              THEN /\ store' = storage_delete_movie(store, title)
                   /\ calls' = <<"list_movies", "delete_movie">>
                   /\ out' = Result("delete_movie", title, "none", FALSE,
                                    <<Msg("deleted")>>)
              ELSE /\ UNCHANGED store
                   /\ calls' = <<"list_movies">>
                   /\ out' = Result("delete_movie", title, "none", FALSE,
                                    <<Msg("doesnt_exist")>>)

\* What "0 <= rating <= 10" accepts of the entries float() accepts.
ValidRating(entry) == entry.isNumber /\ 0 <= entry.value /\ entry.value <= 100

\* "4": update_movie.  The rating loop asks again for every entry that is
\* not a number or not in 0..10; entry is the one it leaves with.
UpdateMovie ==
    /\ pc = "menu"
    /\ \E title \in TypedTitles, entry \in EnteredRatings :
        LET snapshot == storage_list_movies(store)
        IN /\ pc' = "menu"
           /\ IF title \in Titles(snapshot)
              THEN /\ ValidRating(entry)
                   /\ movies' = storage_update_movie(snapshot, title, entry.value)
                   /\ store' = storage_update_movie(store, title, entry.value)
                   /\ calls' = <<"list_movies", "update_movie">>
                   /\ out' = Result("update_movie", title, "none", FALSE,
                                    <<Msg("updated")>>)
              ELSE /\ movies' = snapshot
                   /\ UNCHANGED store
                   /\ calls' = <<"list_movies">>
                   /\ out' = Result("update_movie", title, "none", FALSE,
                                    <<Msg("not_found")>>)

\* "5": stats
Stats ==
    /\ pc = "menu"
    /\ ReadOnly(StatsResult(storage_list_movies(store)))

\* "6": random_movie
RandomMovie ==
    /\ pc = "menu"
    /\ \E pick \in 1..Max(1, Len(store)) :
        ReadOnly(RandomResult(storage_list_movies(store), pick))

\* "7": search_movie
SearchMovie ==
    /\ pc = "menu"
    /\ \E title \in Queries, byUnrounded \in BOOLEAN :
        ReadOnly(SearchResult(storage_list_movies(store), title, byUnrounded))

\* "8": movies_sorted_by_rating
MoviesSortedByRating ==
    /\ pc = "menu"
    /\ ReadOnly(SortedResult(storage_list_movies(store)))

\* "9": create_rating_histogram: the ratings handed to plt.hist.
CreateRatingHistogram ==
    /\ pc = "menu"
    /\ LET snapshot == storage_list_movies(store)
       IN ReadOnly(Result("create_rating_histogram", EmptyStr, "none", FALSE,
                          [i \in 1..Len(snapshot) |-> Line("hist", EmptyStr, 0, snapshot[i].rating)]))

\* "10": generate_website: one list item per movie, or the placeholder.
GenerateWebsite ==
    /\ pc = "menu"
    /\ LET snapshot == storage_list_movies(store)
       IN ReadOnly(Result("generate_website", EmptyStr, "none", FALSE,
                          (IF snapshot /= <<>>
                           THEN [i \in 1..Len(snapshot) |->
                                   Line("li", snapshot[i].title, snapshot[i].year, 0)]
                           ELSE <<Msg("no_movie")>>)
                          \o <<Msg("website_generated")>>))

\* "0": exit_database
ExitDatabase ==
    /\ pc = "menu"
    /\ pc' = "exited"
    /\ out' = Result("exit_database", EmptyStr, "none", FALSE, <<Msg("bye")>>)
    /\ calls' = <<>>
    /\ UNCHANGED <<store, movies>>

\* Any other entry at the menu.
InvalidChoice ==
    /\ pc = "menu"
    /\ out' = Result("main", EmptyStr, "none", FALSE, <<Msg("invalid_choice")>>)
    /\ calls' = <<>>
    /\ UNCHANGED <<store, movies, pc>>

\* The program is started again: movies.db keeps its rows, CREATE TABLE IF
\* NOT EXISTS changes nothing.
Main ==
    /\ pc \in {"crashed", "exited"}
    /\ pc' = "menu"
    /\ movies' = <<>>
    /\ calls' = <<>>
    /\ out' = Result("main", EmptyStr, "none", FALSE, <<>>)
    /\ UNCHANGED store

Next ==
    \/ ListMovies
    \/ AddMovie
    \/ DeleteMovie
    \/ UpdateMovie
    \/ Stats
    \/ RandomMovie
    \/ SearchMovie
    \/ MoviesSortedByRating
    \/ CreateRatingHistogram
    \/ GenerateWebsite
    \/ ExitDatabase
    \/ InvalidChoice
    \/ Main

Spec == Init /\ [][Next]_vars

(***************************************************************************)
(* search_movie alone, over the catalogues the table can hold: any rows    *)
(* with distinct titles.                                                   *)
(***************************************************************************)
SearchRow(t) == [title |-> t, year |-> 1999, rating |-> 70, image |-> Poster]

Injective(s) == \A i, j \in 1..Len(s) : i /= j => s[i] /= s[j]

Snapshots ==
    UNION {{s \in [1..n -> SearchTitles] : Injective(s)} : n \in 0..MaxSnapshot}

InitSearch ==
    /\ store \in {[i \in 1..Len(s) |-> SearchRow(s[i])] : s \in Snapshots}
    /\ movies = <<>>
    /\ calls = <<>>
    /\ out = Result("main", EmptyStr, "none", FALSE, <<>>)
    /\ pc = "menu"

NextSearch == SearchMovie

SpecSearch == InitSearch /\ [][NextSearch]_vars

(***************************************************************************)
(* Properties.  After a handler that only reads, movies is the snapshot it *)
(* worked on and out is what it printed.                                   *)
(***************************************************************************)
Searched == out.op = "search_movie"

\* query occurs in title, letter case ignored.
ContainsIgnoringCase(query, title) ==
    \E k \in 0..(Len(title) - Len(query)) :
        \A i \in 1..Len(query) : LowerChar(query[i]) = LowerChar(title[k + i])

ExactTitles == {t \in Titles(movies) : ContainsIgnoringCase(out.input, t)}

Tagged(tag) == SelectSeq(out.lines, LAMBDA l : l.tag = tag)

TitlesOf(lines) == {lines[i].title : i \in 1..Len(lines)}

\* The score of a title against the query last searched for.
Score(t) == RoundPercent(Similarity(out.input, t))

SameSimilarity(t, u) ==
    LET p == Similarity(out.input, t)
        q == Similarity(out.input, u)
    IN p[1] * q[2] = q[1] * p[2]

Position(t) == CHOOSE i \in 1..Len(movies) : movies[i].title = t

GoodTitles == {t \in Titles(movies) : Score(t) >= Threshold}

\* C1: when a title of the snapshot contains the query, letter case ignored,
\* search_movie prints exactly the movies whose titles do, each once, and
\* does not enter the fuzzy phase: no suggestion, no "not found", no error.
ExactMatchPrecedence ==
    (Searched /\ ExactTitles /= {}) =>
        /\ out.error = "none"
        /\ ~out.fuzzy
        /\ \A i \in 1..Len(out.lines) : out.lines[i].tag = "match"
        /\ TitlesOf(out.lines) = ExactTitles
        /\ Len(out.lines) = Cardinality(ExactTitles)

\* C1 happens: a search matched a title while another title of the snapshot,
\* which does not contain the query, scores at or above the threshold.
ExactMatchPrecedenceWitness ==
    /\ Searched
    /\ ExactTitles /= {}
    /\ \E t \in Titles(movies) \ ExactTitles : Score(t) >= Threshold
    /\ Len(out.lines) >= 1

\* C2: when no title of a non-empty snapshot contains the query, the
\* suggestions are exactly the titles that score 53 or more, and "not found"
\* is printed exactly when no title does.
FuzzyThresholdBoundary ==
    (Searched /\ movies /= <<>> /\ ExactTitles = {}) =>
        /\ out.error = "none"
        /\ (GoodTitles = {}) <=> (out.lines = <<Msg("not_found")>>)
        /\ GoodTitles /= {} => TitlesOf(Tagged("suggestion")) = GoodTitles

\* C3: search_movie on an empty snapshot prints "not found" and raises
\* nothing.
EmptySnapshotNotFound ==
    (Searched /\ movies = <<>>) =>
        /\ out.error = "none"
        /\ out.lines = <<Msg("not_found")>>

StatsPrinted == out.op = "stats" /\ out.error = "none"

\* How many ratings of the snapshot satisfy P.
Count(P(_)) == Cardinality({i \in 1..Len(movies) : P(movies[i].rating)})

\* The k-th smallest rating of the snapshot: fewer than k ratings are below
\* it and at least k are not above it.
Smallest(k) ==
    CHOOSE v \in {movies[i].rating : i \in 1..Len(movies)} :
        /\ Count(LAMBDA r : r < v) < k
        /\ Count(LAMBDA r : r <= v) >= k

\* C5: the median stats prints is the middle one of the ratings in ascending
\* order for an odd number of movies and the mean of the two middle ones for
\* an even number (here doubled), whatever order the rows are in.
MedianIsMiddle ==
    StatsPrinted =>
        LET n == Len(movies)
        IN /\ Len(Tagged("median2")) = 1
           /\ Tagged("median2")[1].value =
                 IF n % 2 = 1 THEN 2 * Smallest(n \div 2 + 1)
                 ELSE Smallest(n \div 2) + Smallest(n \div 2 + 1)

\* C5 happens: stats ran on three movies whose ratings are all different and
\* not in ascending order, the middle one stored last.
MedianIsMiddleWitness ==
    /\ StatsPrinted
    /\ Len(movies) = 3
    /\ movies[1].rating > movies[3].rating
    /\ movies[3].rating > movies[2].rating

\* C6: the movies stats prints as best are exactly those whose rating is the
\* maximum, each once, and those it prints as worst exactly those whose
\* rating is the minimum, each once.
BestWorstComplete ==
    StatsPrinted =>
        LET top == {m \in Titles(movies) :
                       \A i \in 1..Len(movies) : Lookup(movies, m).rating >= movies[i].rating}
            bottom == {m \in Titles(movies) :
                          \A i \in 1..Len(movies) : Lookup(movies, m).rating <= movies[i].rating}
        IN /\ TitlesOf(Tagged("best")) = top
           /\ Len(Tagged("best")) = Cardinality(top)
           /\ TitlesOf(Tagged("worst")) = bottom
           /\ Len(Tagged("worst")) = Cardinality(bottom)
           /\ \A i \in 1..Len(out.lines) :
                out.lines[i].tag \in {"best", "worst"} =>
                    out.lines[i].value = Lookup(movies, out.lines[i].title).rating

\* C6 happens: stats ran on three movies, the first and the last tied for
\* the best rating.
BestWorstCompleteWitness ==
    /\ StatsPrinted
    /\ Len(movies) = 3
    /\ movies[1].rating = movies[3].rating
    /\ movies[2].rating < movies[1].rating

Ranked == out.op = "movies_sorted_by_rating"

\* C7: movies_sorted_by_rating prints every movie of the snapshot once, the
\* ratings never increasing, movies of the same rating in snapshot order;
\* for no movie it prints nothing and raises nothing.
RankedDescendingStable ==
    Ranked =>
        /\ out.error = "none"
        /\ Len(out.lines) = Len(movies)
        /\ \A i \in 1..Len(movies) :
            \E k \in 1..Len(out.lines) : out.lines[k] = MovieLine("movie", movies[i])
        /\ \A i, j \in 1..Len(out.lines) :
            i < j => /\ out.lines[i].value >= out.lines[j].value
                     /\ out.lines[i].value = out.lines[j].value
                            => Position(out.lines[i].title) < Position(out.lines[j].title)

\* C7 happens: three movies were ranked, the first and the last of the
\* snapshot tied below the second.
RankedDescendingStableWitness ==
    /\ Ranked
    /\ Len(movies) = 3
    /\ movies[1].rating = movies[3].rating
    /\ movies[2].rating > movies[1].rating
    /\ out.lines[1].title = movies[2].title

\* C8: stats and random_movie on an empty snapshot raise an error and print
\* nothing: no average, no median, no best or worst movie, no pick.
EmptySnapshotGuards ==
    (out.op \in {"stats", "random_movie"} /\ movies = <<>>) =>
        /\ out.error /= "none"
        /\ out.lines = <<>>
        /\ pc = "crashed"

\* C8 happens: stats ran on an empty table and ended the program.
EmptySnapshotGuardsWitness ==
    /\ out.op = "stats"
    /\ movies = <<>>
    /\ store = <<>>
    /\ pc = "crashed"

ReadOnlyOps ==
    {"list_movies", "stats", "random_movie", "search_movie", "movies_sorted_by_rating"}

\* C9: a step of list_movies, stats, random_movie, search_movie or
\* movies_sorted_by_rating leaves the table as it was, and the only storage
\* function it calls is list_movies.
ReadOnlyLeavesStore ==
    [][(pc = "menu" /\ out'.op \in ReadOnlyOps) =>
            /\ store' = store
            /\ calls' = <<"list_movies">>]_vars

\* C9 happens: a ranking that printed the movies in another order than the
\* table holds them in, the table untouched.
ReadOnlyLeavesStoreWitness ==
    /\ Ranked
    /\ Len(store) >= 2
    /\ movies = store
    /\ calls = <<"list_movies">>
    /\ out.lines[1].title /= store[1].title

\* C10: every row of the table has a non-empty title that no other row has
\* and a rating from 0 to 10.
StoreInvariant ==
    \A i \in 1..Len(store) :
        /\ store[i].title /= EmptyStr
        /\ store[i].rating >= 0
        /\ store[i].rating <= 100
        /\ \A j \in 1..Len(store) : store[j].title = store[i].title => j = i

=============================================================================
